---------------------------- MODULE Spec2Model ----------------------------
(***************************************************************************)
(* A model of files-to-prompt (src/files_to_prompt/cli.py): one invocation *)
(* of the `cli` command over a file-system snapshot.  The invocation loads *)
(* and merges the TOML config layers, applies them to the command-line     *)
(* values, opens the output sink, walks every root argument and finally    *)
(* closes the sink or copies to the clipboard.                             *)
(*                                                                         *)
(* Python strings are sequences of one-character strings, so that          *)
(* fnmatch, str.endswith, os.path.join/basename/dirname, str.split and     *)
(* sorted() are computed on the text as the code computes them.            *)
(***************************************************************************)
EXTENDS Integers, Sequences, FiniteSets, TLC

(***************************************************************************)
(* Bounds of the exploration.                                              *)
(***************************************************************************)
\* the longest list of root arguments given on the command line
MaxRoots == 2
\* the number of path components of the current working directory
CwdDepth == 2

(***************************************************************************)
(* Text.                                                                   *)
(***************************************************************************)
\* The characters the model's texts use, in code-point order (what Python's
\* string comparison, hence sorted(), goes by).  "NUL" stands for the NUL
\* character, "NL" for the line feed and "BQ" for the backquote.
AsciiOrder ==
  << "NUL", "NL", " ", "!", "#", "*", "-", ".", "/",
     "0", "1", "2", "3", "4", "5", "6", "7", "8", "9",
     "?", "[", "]", "_", "BQ",
     "a", "b", "c", "d", "e", "f", "g", "h", "i", "j", "k", "l", "m",
     "n", "o", "p", "q", "r", "s", "t", "u", "v", "w", "x", "y", "z" >>

Ord(c) == CHOOSE i \in 1..Len(AsciiOrder) : AsciiOrder[i] = c

Range(s) == { s[i] : i \in 1..Len(s) }

\* Python's s1 < s2 on strings
RECURSIVE StrLess(_, _)
StrLess(a, b) ==
  IF b = <<>> THEN FALSE
  ELSE IF a = <<>> THEN TRUE
  ELSE IF Head(a) = Head(b) THEN StrLess(Tail(a), Tail(b))
  ELSE Ord(Head(a)) < Ord(Head(b))

\* a mutant of sorted: the names stay in the order they were listed in
sorted_AsListed(names) == names

\* sorted(names) for a list of strings
RECURSIVE sorted(_)
sorted(names) ==
  IF names = <<>> THEN <<>>
  ELSE LET i == CHOOSE i \in 1..Len(names) :
                  \A j \in 1..Len(names) : ~StrLess(names[j], names[i])
           rest == [k \in 1..(Len(names) - 1) |->
                      IF k < i THEN names[k] ELSE names[k + 1]]
       IN  <<names[i]>> \o sorted(rest)

\* s.startswith(prefix)
startswith(s, prefix) ==
  /\ Len(prefix) <= Len(s)
  /\ SubSeq(s, 1, Len(prefix)) = prefix

\* s.endswith(suffix) for one suffix
EndsWithOne(s, suffix) ==
  /\ Len(suffix) <= Len(s)
  /\ SubSeq(s, Len(s) - Len(suffix) + 1, Len(s)) = suffix

\* s.endswith(suffixes) for a tuple of suffixes
endswith(s, suffixes) ==
  \E i \in 1..Len(suffixes) : EndsWithOne(s, suffixes[i])

\* the index of the last occurrence of character c in s, 0 when there is none
\* (s.rfind(c) + 1)
RFind(s, c) ==
  IF \E i \in 1..Len(s) : s[i] = c
    THEN CHOOSE i \in 1..Len(s) : s[i] = c /\ \A j \in (i + 1)..Len(s) : s[j] # c
    ELSE 0

\* s.rstrip(c)
RECURSIVE RStrip(_, _)
RStrip(s, c) ==
  IF s # <<>> /\ s[Len(s)] = c THEN RStrip(SubSeq(s, 1, Len(s) - 1), c) ELSE s

\* s.strip() for the whitespace the model's texts use
IsSpace(c) == c \in {" ", "NL"}

RECURSIVE strip(_)
strip(s) ==
  IF s # <<>> /\ IsSpace(Head(s)) THEN strip(Tail(s))
  ELSE IF s # <<>> /\ IsSpace(s[Len(s)]) THEN strip(SubSeq(s, 1, Len(s) - 1))
  ELSE s

\* The pieces of s between the characters of seps, empty pieces included
\* (str.split(sep) for a one-character sep).
RECURSIVE SplitKeep(_, _, _)
SplitKeep(s, seps, piece) ==
  IF s = <<>> THEN <<piece>>
  ELSE IF Head(s) \in seps THEN <<piece>> \o SplitKeep(Tail(s), seps, <<>>)
  ELSE SplitKeep(Tail(s), seps, Append(piece, Head(s)))

NonEmpty(pieces) == SelectSeq(pieces, LAMBDA p : p # <<>>)

(***************************************************************************)
(* fnmatch.fnmatch(name, pat) on POSIX (normcase is the identity): the     *)
(* whole name must match; * is any run, ? any one character, [seq] one of  *)
(* seq, [!seq] none of seq, with ranges (a-c) as fnmatch.translate reads   *)
(* them; a [ that is never closed is a literal.                            *)
(***************************************************************************)
\* the index of the ] closing the bracket opened just before position i of
\* pat, 0 when it is never closed (fnmatch.translate's scan for j)
BracketEnd(pat, i) ==
  LET n == Len(pat)
      j0 == IF i <= n /\ pat[i] = "!" THEN i + 1 ELSE i
      j1 == IF j0 <= n /\ pat[j0] = "]" THEN j0 + 1 ELSE j0
  IN  IF \E j \in j1..n : pat[j] = "]"
        THEN CHOOSE j \in j1..n : pat[j] = "]" /\ \A k \in j1..(j - 1) : pat[k] # "]"
        ELSE 0

\* translate's split of a bracket's text at the hyphens that make ranges:
\* the hyphen search resumes two characters after each hyphen found, and a
\* hyphen that ends the text stays with the last chunk
RECURSIVE SetChunks(_, _, _)
SetChunks(stuff, start, k) ==
  LET hyphens == { h \in k..Len(stuff) : stuff[h] = "-" }
  IN  IF hyphens = {}
        THEN <<SubSeq(stuff, start, Len(stuff))>>
        ELSE LET h == CHOOSE h \in hyphens : \A g \in hyphens : h <= g
             IN  IF h = Len(stuff)
                   THEN <<SubSeq(stuff, start, Len(stuff))>>
                   ELSE <<SubSeq(stuff, start, h - 1)>> \o SetChunks(stuff, h + 1, h + 3)

\* translate's removal of the empty ranges, from the last pair of chunks to
\* the first: the two ends of an empty range are dropped and the chunks joined
RECURSIVE RemoveEmptyRanges(_, _)
RemoveEmptyRanges(chunks, k) ==
  IF k < 2 THEN chunks
  ELSE LET left  == chunks[k - 1]
           right == chunks[k]
       IN  IF Ord(left[Len(left)]) > Ord(right[1])
             THEN RemoveEmptyRanges(
                    [m \in 1..(Len(chunks) - 1) |->
                       IF m < k - 1 THEN chunks[m]
                       ELSE IF m = k - 1
                         THEN SubSeq(left, 1, Len(left) - 1) \o SubSeq(right, 2, Len(right))
                       ELSE chunks[m + 1]],
                    k - 1)
             ELSE RemoveEmptyRanges(chunks, k - 1)

\* whether character c is in the set the chunks spell: a character of a
\* chunk, or one from the last character of a chunk to the first of the next
InChunks(c, chunks) ==
  \E m \in 1..Len(chunks) :
    \/ c \in Range(chunks[m])
    \/ /\ m < Len(chunks)
       /\ Ord(chunks[m][Len(chunks[m])]) <= Ord(c)
       /\ Ord(c) <= Ord(chunks[m + 1][1])

\* whether c matches the bracket expression whose text, between [ and ], is stuff
BracketMatch(c, stuff) ==
  LET chunks == IF "-" \in Range(stuff)
                  THEN LET split == SetChunks(stuff, 1, IF stuff[1] = "!" THEN 3 ELSE 2)
                       IN  RemoveEmptyRanges(split, Len(split))
                  ELSE <<stuff>>
      \* the set is negated when what is left begins with "!"
      negate == chunks[1] # <<>> /\ chunks[1][1] = "!"
      set    == IF negate THEN [chunks EXCEPT ![1] = Tail(chunks[1])] ELSE chunks
  IN  InChunks(c, set) # negate

RECURSIVE GlobMatch(_, _)
GlobMatch(name, pat) ==
  IF pat = <<>> THEN name = <<>>
  ELSE IF Head(pat) = "*" THEN
    \/ GlobMatch(name, Tail(pat))
    \/ name # <<>> /\ GlobMatch(Tail(name), pat)
  ELSE IF Head(pat) = "?" THEN
    name # <<>> /\ GlobMatch(Tail(name), Tail(pat))
  ELSE IF Head(pat) = "[" /\ BracketEnd(pat, 2) # 0 THEN
    LET j == BracketEnd(pat, 2)
    IN  /\ name # <<>>
        /\ BracketMatch(Head(name), SubSeq(pat, 2, j - 1))
        /\ GlobMatch(Tail(name), SubSeq(pat, j + 1, Len(pat)))
  ELSE
    name # <<>> /\ Head(name) = Head(pat) /\ GlobMatch(Tail(name), Tail(pat))

fnmatch(name, pat) == GlobMatch(name, pat)

(***************************************************************************)
(* os.path on POSIX.                                                       *)
(***************************************************************************)
os_sep == "/"

basename(p) == SubSeq(p, RFind(p, os_sep) + 1, Len(p))

dirname(p) ==
  LET head == SubSeq(p, 1, RFind(p, os_sep))
  IN  IF head # <<>> /\ RStrip(head, os_sep) # <<>> THEN RStrip(head, os_sep) ELSE head

join(a, b) ==
  IF startswith(b, <<os_sep>>) THEN b
  ELSE IF a = <<>> \/ a[Len(a)] = os_sep THEN a \o b
  ELSE a \o <<os_sep>> \o b

\* norm_path: every os.sep becomes a forward slash
norm_path(p) == [i \in 1..Len(p) |-> IF p[i] = os_sep THEN "/" ELSE p[i]]


(***************************************************************************)
(* The file-system snapshot the invocation runs over.  Paths are relative  *)
(* to the current working directory, as the root arguments are.            *)
(*                                                                         *)
(*   .gitignore            "*.log"                                         *)
(*   f.md                                                                  *)
(*   d/a.txt  d/.b.txt  d/bin.py (not UTF-8)  d/c.md  d/e.log              *)
(*   d/build/keep.py  d/build/skip.txt  d/build/x.tmp                      *)
(*   d/sub/.gitignore      "#old", " ", "skip.txt"                         *)
(*   d/sub/keep.py  d/sub/skip.txt                                         *)
(*   d/sub/deep/ok.txt  d/sub/deep/skip.txt                                *)
(*   d/.hid/h.txt                                                          *)
(*   t/.gitignore          "old/", "tmp"                                   *)
(*   t/z.txt  t/old/o.txt  t/tmp/k.txt  t/new/n.txt                        *)
(***************************************************************************)
n_gitignore == <<".", "g", "i", "t", "i", "g", "n", "o", "r", "e">>
n_d         == <<"d">>
n_f_md      == <<"f", ".", "m", "d">>
n_a_txt     == <<"a", ".", "t", "x", "t">>
n_dot_b_txt == <<".", "b", ".", "t", "x", "t">>
n_bin_py    == <<"b", "i", "n", ".", "p", "y">>
n_c_md      == <<"c", ".", "m", "d">>
n_e_log     == <<"e", ".", "l", "o", "g">>
n_build     == <<"b", "u", "i", "l", "d">>
n_sub       == <<"s", "u", "b">>
n_dot_hid   == <<".", "h", "i", "d">>
n_keep_py   == <<"k", "e", "e", "p", ".", "p", "y">>
n_skip_txt  == <<"s", "k", "i", "p", ".", "t", "x", "t">>
n_x_tmp     == <<"x", ".", "t", "m", "p">>
n_deep      == <<"d", "e", "e", "p">>
n_ok_txt    == <<"o", "k", ".", "t", "x", "t">>
n_h_txt     == <<"h", ".", "t", "x", "t">>
n_nope      == <<"n", "o", "p", "e">>
n_t         == <<"t">>
n_old       == <<"o", "l", "d">>
n_tmp       == <<"t", "m", "p">>
n_new       == <<"n", "e", "w">>
n_z_txt     == <<"z", ".", "t", "x", "t">>
n_o_txt     == <<"o", ".", "t", "x", "t">>
n_k_txt     == <<"k", ".", "t", "x", "t">>
n_n_txt     == <<"n", ".", "t", "x", "t">>

\* a path from its components
RECURSIVE P(_)
P(parts) ==
  IF Len(parts) = 1 THEN parts[1] ELSE parts[1] \o <<"/">> \o P(Tail(parts))

p_d     == n_d
p_build == P(<<n_d, n_build>>)
p_sub   == P(<<n_d, n_sub>>)
p_deep  == P(<<n_d, n_sub, n_deep>>)
p_hid   == P(<<n_d, n_dot_hid>>)
p_f_md  == n_f_md
p_bin   == P(<<n_d, n_bin_py>>)
p_t     == n_t
p_old   == P(<<n_t, n_old>>)
p_tmp   == P(<<n_t, n_tmp>>)
p_new   == P(<<n_t, n_new>>)

\* patterns and extensions
g_log      == <<"*", ".", "l", "o", "g">>
g_tmp      == <<"*", ".", "t", "m", "p">>
g_skip_txt == n_skip_txt
g_build    == n_build
g_old_dir  == n_old \o <<"/">>
g_new_dir  == n_new \o <<"/">>
g_tmp_name == n_tmp
g_new_name == n_new
g_new_range == <<"[", "m", "-", "o", "]", "e", "w">>
e_py       == <<"p", "y">>
e_md       == <<"m", "d">>
e_txt      == <<"t", "x", "t">>

\* the lines of every regular file, each with its line break dropped
FileLines ==
  (n_gitignore :> << g_log >>)
  @@ (n_f_md :> << <<"#", " ", "f">> >>)
  @@ (P(<<n_d, n_a_txt>>) :> << <<"a">> >>)
  @@ (P(<<n_d, n_dot_b_txt>>) :> << <<"b">> >>)
  @@ (P(<<n_d, n_bin_py>>) :> << >>)
  @@ (P(<<n_d, n_c_md>>) :> << <<"c">>, <<"BQ", "BQ", "BQ">>, <<"c">> >>)
  @@ (P(<<n_d, n_e_log>>) :> << <<"e">> >>)
  @@ (P(<<n_d, n_build, n_keep_py>>) :> << <<"k">> >>)
  @@ (P(<<n_d, n_build, n_skip_txt>>) :> << <<"s">> >>)
  @@ (P(<<n_d, n_build, n_x_tmp>>) :> << <<"x">> >>)
  @@ (P(<<n_d, n_sub, n_gitignore>>) :> << <<"#", "o", "l", "d">>, <<" ">>, g_skip_txt >>)
  @@ (P(<<n_d, n_sub, n_keep_py>>) :> << <<"k">>, <<"k">> >>)
  @@ (P(<<n_d, n_sub, n_skip_txt>>) :> << <<"s">> >>)
  @@ (P(<<n_d, n_sub, n_deep, n_ok_txt>>) :> << <<"o">> >>)
  @@ (P(<<n_d, n_sub, n_deep, n_skip_txt>>) :> << <<"s">> >>)
  @@ (P(<<n_d, n_dot_hid, n_h_txt>>) :> << <<"h">> >>)
  @@ (P(<<n_t, n_gitignore>>) :> << g_old_dir, g_tmp_name >>)
  @@ (P(<<n_t, n_z_txt>>) :> << <<"z">> >>)
  @@ (P(<<n_t, n_old, n_o_txt>>) :> << <<"o">> >>)
  @@ (P(<<n_t, n_tmp, n_k_txt>>) :> << <<"k">> >>)
  @@ (P(<<n_t, n_new, n_n_txt>>) :> << <<"n">> >>)

\* the regular files whose bytes are not valid UTF-8
NotUtf8 == { P(<<n_d, n_bin_py>>) }

\* every directory's entries; os.scandir lists them in an order of its own
DirEntries ==
  (p_d :> [dirs  |-> <<n_build, n_sub, n_dot_hid>>,
           files |-> <<n_e_log, n_c_md, n_dot_b_txt, n_bin_py, n_a_txt>>])
  @@ (p_build :> [dirs |-> <<>>, files |-> <<n_x_tmp, n_keep_py, n_skip_txt>>])
  @@ (p_sub :> [dirs |-> <<n_deep>>, files |-> <<n_skip_txt, n_gitignore, n_keep_py>>])
  @@ (p_deep :> [dirs |-> <<>>, files |-> <<n_skip_txt, n_ok_txt>>])
  @@ (p_hid :> [dirs |-> <<>>, files |-> <<n_h_txt>>])
  @@ (p_t :> [dirs |-> <<n_tmp, n_old, n_new>>, files |-> <<n_z_txt, n_gitignore>>])
  @@ (p_old :> [dirs |-> <<>>, files |-> <<n_o_txt>>])
  @@ (p_tmp :> [dirs |-> <<>>, files |-> <<n_k_txt>>])
  @@ (p_new :> [dirs |-> <<>>, files |-> <<n_n_txt>>])

\* a path names the same entry with or without trailing separators
Canon(p) == IF RStrip(p, os_sep) = <<>> THEN p ELSE RStrip(p, os_sep)

isfile(p) == p \in DOMAIN FileLines
isdir(p)  == Canon(p) \in DOMAIN DirEntries
exists(p) == isfile(p) \/ isdir(p)

Reverse(s) == [i \in 1..Len(s) |-> s[Len(s) + 1 - i]]


(***************************************************************************)
(* Ignore rules.                                                           *)
(***************************************************************************)
AnyMatch(name, rules) == \E i \in 1..Len(rules) : fnmatch(name, rules[i])

should_ignore(path, gitignore_rules) ==
  \E i \in 1..Len(gitignore_rules) :
    \/ fnmatch(basename(path), gitignore_rules[i])
    \/ isdir(path) /\ fnmatch(basename(path) \o <<"/">>, gitignore_rules[i])

\* the patterns of the .gitignore of directory `path`: its stripped lines,
\* but for the blank ones and those starting with #
read_gitignore(path) ==
  LET gitignore_path == join(path, n_gitignore)
      kept(line) == strip(line) # <<>> /\ ~startswith(line, <<"#">>)
      lines == IF isfile(gitignore_path) THEN FileLines[gitignore_path] ELSE <<>>
      keptLines == SelectSeq(lines, kept)
  IN  [i \in 1..Len(keptLines) |-> strip(keptLines[i])]

(***************************************************************************)
(* Output records.  Every call of the writer is one item: its kind, a text *)
(* argument (a path, a language), a number (a document index, a fence      *)
(* length) and, for file content, the lines written.                       *)
(***************************************************************************)
Item(k, s, n, c) == [k |-> k, s |-> s, n |-> n, c |-> c]

Digit == <<"0", "1", "2", "3", "4", "5", "6", "7", "8", "9">>

\* str(n) for n >= 0
RECURSIVE str(_)
str(n) == IF n < 10 THEN <<Digit[n + 1]>> ELSE str(n \div 10) \o <<Digit[(n % 10) + 1]>>

Spaces(n) == [i \in 1..n |-> " "]

\* add_line_numbers over the lines of the content: each line prefixed with its
\* number, right-aligned to the width of the last number, and two spaces
add_line_numbers(lines) ==
  LET padding == Len(str(Len(lines)))
  IN  [i \in 1..Len(lines) |->
         Spaces(padding - Len(str(i))) \o str(i) \o <<" ", " ">> \o lines[i]]

EXT_TO_LANG ==
  (<<"p", "y">> :> <<"p", "y", "t", "h", "o", "n">>)
  @@ (<<"c">> :> <<"c">>)
  @@ (<<"c", "p", "p">> :> <<"c", "p", "p">>)
  @@ (<<"j", "a", "v", "a">> :> <<"j", "a", "v", "a">>)
  @@ (<<"j", "s">> :> <<"j", "a", "v", "a", "s", "c", "r", "i", "p", "t">>)
  @@ (<<"t", "s">> :> <<"t", "y", "p", "e", "s", "c", "r", "i", "p", "t">>)
  @@ (<<"h", "t", "m", "l">> :> <<"h", "t", "m", "l">>)
  @@ (<<"c", "s", "s">> :> <<"c", "s", "s">>)
  @@ (<<"x", "m", "l">> :> <<"x", "m", "l">>)
  @@ (<<"j", "s", "o", "n">> :> <<"j", "s", "o", "n">>)
  @@ (<<"y", "a", "m", "l">> :> <<"y", "a", "m", "l">>)
  @@ (<<"y", "m", "l">> :> <<"y", "a", "m", "l">>)
  @@ (<<"s", "h">> :> <<"b", "a", "s", "h">>)
  @@ (<<"r", "b">> :> <<"r", "u", "b", "y">>)

\* `needle in line`
Contains(line, needle) ==
  \E i \in 0..(Len(line) - Len(needle)) :
    SubSeq(line, i + 1, i + Len(needle)) = needle

\* the fence of print_as_markdown: three backquotes, and one more as long as
\* the fence occurs in the content
RECURSIVE Backticks(_, _)
Backticks(lines, n) ==
  IF \E i \in 1..Len(lines) : Contains(lines[i], [k \in 1..n |-> "BQ"])
    THEN Backticks(lines, n + 1)
    ELSE n

print_default(path, content, line_numbers) ==
  << Item("path", path, 0, <<>>),
     Item("---", <<>>, 0, <<>>),
     Item("content", <<>>, 0, IF line_numbers THEN add_line_numbers(content) ELSE content),
     Item("", <<>>, 0, <<>>),
     Item("---", <<>>, 0, <<>>) >>

print_as_xml(path, content, line_numbers, index) ==
  << Item("<document index>", <<>>, index, <<>>),
     Item("<source>", path, 0, <<>>),
     Item("<document_content>", <<>>, 0, <<>>),
     Item("content", <<>>, 0, IF line_numbers THEN add_line_numbers(content) ELSE content),
     Item("</document_content>", <<>>, 0, <<>>),
     Item("</document>", <<>>, 0, <<>>) >>

print_as_markdown(path, content, line_numbers) ==
  LET ext  == SubSeq(path, RFind(path, ".") + 1, Len(path))
      lang == IF ext \in DOMAIN EXT_TO_LANG THEN EXT_TO_LANG[ext] ELSE <<>>
      backticks == Backticks(content, 3)
  IN  << Item("path", path, 0, <<>>),
         Item("fence", lang, backticks, <<>>),
         Item("content", <<>>, 0, IF line_numbers THEN add_line_numbers(content) ELSE content),
         Item("fence", <<>>, backticks, <<>>) >>

\* the writer calls of print_path for one file
print_path(path, content, cxml, markdown, line_numbers, index) ==
  LET p == norm_path(path)
  IN  IF cxml THEN print_as_xml(p, content, line_numbers, index)
      ELSE IF markdown THEN print_as_markdown(p, content, line_numbers)
      ELSE print_default(p, content, line_numbers)

(***************************************************************************)
(* Configuration files.  A file is [exists, parses, toml]: toml is the     *)
(* parsed document, a dict that may hold a "defaults" table.  The values   *)
(* of `ignore` are kept as sets: the code turns them into sets and back,   *)
(* and reads them only through any().                                      *)
(***************************************************************************)
EmptyDict == <<>>

NoFile == [exists |-> FALSE, parses |-> FALSE, toml |-> EmptyDict]

TomlFile(defaults) == [exists |-> TRUE, parses |-> TRUE, toml |-> [defaults |-> defaults]]

\* a file that is no TOML
BadToml == [exists |-> TRUE, parses |-> FALSE, toml |-> EmptyDict]

\* a TOML file without a defaults table
NoDefaults == [exists |-> TRUE, parses |-> TRUE, toml |-> EmptyDict]

\* the level (number of path components; 0 is the file-system root) of the
\* nearest directory holding .files-to-prompt.toml, -1 for None
RECURSIVE ProjectSearch(_, _)
ProjectSearch(current, files) ==
  LET parent == IF current = 0 THEN 0 ELSE current - 1
  IN  IF current # parent
        THEN IF files[current].exists THEN current ELSE ProjectSearch(parent, files)
        ELSE -1

find_project_config(e) == ProjectSearch(CwdDepth, e.project_files)

\* the user configuration file: "config" for ~/.config/files-to-prompt/config.toml,
\* "dotfile" for ~/.files-to-prompt.toml, "None"
find_user_config(e) ==
  IF e.home_config.exists THEN "config"
  ELSE IF e.home_dotfile.exists THEN "dotfile"
  ELSE "None"

\* load_toml_file: the parsed document, {} when the file does not parse
load_toml_file(file) == IF file.parses THEN file.toml ELSE EmptyDict

\* one step of merge_configs' loop: the defaults of `config` written over
\* `result`, ignore lists combined
MergeOne(result, config) ==
  IF "defaults" \in DOMAIN config
    THEN LET defaults == config.defaults
         IN  [key \in DOMAIN result \cup DOMAIN defaults |->
                IF key \in DOMAIN defaults
                  THEN IF key = "ignore" /\ key \in DOMAIN result
                         THEN result[key] \cup defaults[key]
                         ELSE defaults[key]
                  ELSE result[key]]
    ELSE result

RECURSIVE MergeLoop(_, _)
MergeLoop(result, configs) ==
  IF configs = <<>> THEN result
  ELSE MergeLoop(MergeOne(result, Head(configs)), Tail(configs))

merge_configs(configs) == MergeLoop(EmptyDict, Reverse(configs))

\* the files load_config reads, in the order it appends them to `configs`
ConfigFiles(e) ==
  (IF find_user_config(e) = "config" THEN <<e.home_config>>
   ELSE IF find_user_config(e) = "dotfile" THEN <<e.home_dotfile>>
   ELSE <<>>)
  \o (IF find_project_config(e) # -1
        THEN <<e.project_files[find_project_config(e)]>>
        ELSE <<>>)

load_config(no_config, e) ==
  IF no_config THEN EmptyDict
  ELSE merge_configs([i \in 1..Len(ConfigFiles(e)) |-> load_toml_file(ConfigFiles(e)[i])])

\* config.get(key, default)
Get(config, key, default) == IF key \in DOMAIN config THEN config[key] ELSE default


(***************************************************************************)
(* The directory filters of process_path, in the order of the loop body.   *)
(***************************************************************************)
\* a mutant of HiddenFilter: hidden entries are kept whatever include_hidden is
HiddenFilter_Off(names, inc_hidden) == names

\* lines 227-229: entries starting with "." go, unless include_hidden
HiddenFilter(names, inc_hidden) ==
  IF ~inc_hidden
    THEN SelectSeq(names, LAMBDA n : ~startswith(n, <<".">>))
    ELSE names

\* lines 233-242: entries the accumulated .gitignore rules match go
GitignoreFilter(root, names, rules, ign_gitignore) ==
  IF ~ign_gitignore
    THEN SelectSeq(names, LAMBDA n : ~should_ignore(join(root, n), rules))
    ELSE names

\* a mutant of IgnoreDirsFilter: ignore_files_only is not looked at
IgnoreDirsFilter_Always(dirs, patterns, files_only) ==
  IF patterns # {}
    THEN SelectSeq(dirs, LAMBDA d : ~\E pattern \in patterns : fnmatch(d, pattern))
    ELSE dirs

\* lines 244-250: directories an --ignore pattern matches go, unless
\* ignore_files_only
IgnoreDirsFilter(dirs, patterns, files_only) ==
  IF patterns # {} /\ ~files_only
    THEN SelectSeq(dirs, LAMBDA d : ~\E pattern \in patterns : fnmatch(d, pattern))
    ELSE dirs

\* lines 251-255: files an --ignore pattern matches go
IgnoreFilesFilter(files, patterns) ==
  IF patterns # {}
    THEN SelectSeq(files, LAMBDA f : ~\E pattern \in patterns : fnmatch(f, pattern))
    ELSE files

\* a mutant of ExtensionFilter: the extensions are not looked at
ExtensionFilter_Off(files, exts) == files

\* lines 257-258: with extensions, files ending with none of them go
ExtensionFilter(files, exts) ==
  IF exts # <<>>
    THEN SelectSeq(files, LAMBDA f : endswith(f, exts))
    ELSE files

\* the orders os.scandir may list the entries `s` in: every one of them
RECURSIVE ScanOrders(_)
ScanOrders(s) ==
  IF s = <<>>
    THEN { <<>> }
    ELSE UNION { { <<s[i]>> \o rest :
                   rest \in ScanOrders(SubSeq(s, 1, i - 1) \o SubSeq(s, i + 1, Len(s))) } :
                 i \in 1..Len(s) }

\* os.walk's (dirs, files) of a directory: the entries of the directory, each
\* list in an order of os.scandir's choosing, so the orders each may come in
ScanDir(root) ==
  LET entries == DirEntries[Canon(root)]
  IN  [dirs |-> ScanOrders(entries.dirs), files |-> ScanOrders(entries.files)]

(***************************************************************************)
(* The invocation: the command line (argv), what it runs in (env) and the  *)
(* state of cli().                                                         *)
(***************************************************************************)
\* Python's None, for output_file
None == "None"

\* `if output_file`
Truthy(v) == v # None /\ v # ""

FlagNames ==
  { "include_hidden", "ignore_files_only", "ignore_gitignore", "copy_to_clipboard",
    "claude_xml", "markdown", "line_numbers" }

VARIABLES
  argv,               \* the command line: paths, extensions, ignore_patterns,
                      \* flags (the boolean options given), output_file, null, no_config
  env,                \* config files, standard input
  pc,                 \* where cli() is
  config,             \* load_config's result
  extensions, ignore_patterns, include_hidden, ignore_files_only,
  ignore_gitignore, copy_to_clipboard, claude_xml, markdown, line_numbers,
  output_file,        \* cli()'s parameters, rebound as the config is applied
  global_index,       \* the module's document counter
  paths,              \* the roots: command line, then standard input
  path_i,             \* the position of `path` in the for loop over paths
  gitignore_rules,    \* the accumulated .gitignore patterns
  writer,             \* "echo", "clipboard_buffer" or "fp"
  fp,                 \* "None", "open" or "closed"
  walk_stack,         \* the directories os.walk has yet to yield, next first
  files,              \* the files of the current directory yet to be printed
  root,               \* os.walk's current directory
  stdout, stderr,     \* the items echoed to each stream
  file_content,       \* the items written to the output file
  clipboard_buffer,   \* the items written to the StringIO
  clipboard,          \* what pyperclip.copy received
  copied,             \* whether pyperclip.copy was called
  log                 \* history: what process_path did, in order

options ==
  << extensions, ignore_patterns, include_hidden, ignore_files_only, ignore_gitignore,
     copy_to_clipboard, claude_xml, markdown, line_numbers, output_file >>

sinks == << stdout, stderr, file_content, clipboard_buffer, clipboard, copied >>

walk == << walk_stack, files, root >>

\* An entry of the history: ev is "visit" (os.walk yielded directory `path`),
\* "yield" (file `path` was printed) or "skip" (file `path` did not decode);
\* arg is the position of the root being processed and rules the
\* gitignore_rules at that moment.
Event(ev, p, arg, rules) == [ev |-> ev, path |-> p, arg |-> arg, rules |-> rules]

history == << log >>

vars ==
  << argv, env, pc, config, options, global_index, paths, path_i, gitignore_rules,
     writer, fp, walk, sinks, history >>


(***************************************************************************)
(* The invocations explored.  Each family varies one part of the input     *)
(* and holds the rest at the defaults.                                     *)
(***************************************************************************)
Argv0 ==
  [ paths |-> <<p_d>>, extensions |-> <<>>, ignore_patterns |-> {}, flags |-> {},
    output_file |-> None, null |-> FALSE, no_config |-> FALSE ]

Env0 ==
  [ home_config |-> NoFile, home_dotfile |-> NoFile,
    project_files |-> [level \in 0..CwdDepth |-> NoFile],
    stdin_isatty |-> TRUE, stdin_text |-> <<>> ]

\* the sequences over S of length at most n
SeqsUpTo(S, n) == UNION { [1..k -> S] : k \in 0..n }

\* config files
LayerA ==
  TomlFile(("extensions" :> <<e_py>>) @@ ("ignore" :> {g_tmp}) @@ ("line_numbers" :> TRUE)
           @@ ("markdown" :> TRUE) @@ ("include_hidden" :> FALSE))

LayerB ==
  TomlFile(("extensions" :> <<e_md>>) @@ ("ignore" :> {g_skip_txt}) @@ ("line_numbers" :> FALSE)
           @@ ("include_hidden" :> TRUE) @@ ("cxml" :> TRUE) @@ ("output" :> "cfg.txt")
           @@ ("copy" :> TRUE))

LayerC ==
  TomlFile(("ignore_files_only" :> TRUE) @@ ("ignore_gitignore" :> TRUE)
           @@ ("ignore" :> {g_build}) @@ ("copy" :> TRUE) @@ ("markdown" :> FALSE))

Layers == { NoFile, BadToml, NoDefaults, LayerA, LayerB, LayerC }

\* roots on the command line
RootArgs == { p_d, p_sub, p_f_md, n_nope }

\* what standard input may hold
StdinTexts ==
  { p_sub \o <<" ">> \o p_f_md \o <<"NL">>,
    p_f_md \o <<"NUL">> \o p_sub \o <<"NUL">>,
    p_f_md \o <<"NL">> \o n_nope \o <<" ">> \o p_sub }

\* the directory walk: roots and filters vary
TraversalInvocations ==
  { [ argv |-> [Argv0 EXCEPT !.paths = ps, !.extensions = es, !.ignore_patterns = ig,
                             !.flags = fl, !.no_config = TRUE],
      env |-> Env0,
      index |-> 1 ] :
    ps \in SeqsUpTo(RootArgs, MaxRoots),
    es \in { <<>>, <<e_py, e_md>> },
    ig \in { {}, {g_build, g_tmp} },
    fl \in SUBSET { "include_hidden", "ignore_files_only", "ignore_gitignore" } }

\* directory patterns: t's .gitignore names directories with and without a
\* trailing separator, and so does --ignore
PruneInvocations ==
  { [ argv |-> [Argv0 EXCEPT !.paths = <<p_t>>, !.ignore_patterns = ig, !.flags = fl,
                             !.no_config = TRUE],
      env |-> Env0,
      index |-> 1 ] :
    ig \in { {}, {g_new_dir}, {g_new_name}, {g_new_range} },
    fl \in SUBSET { "ignore_files_only", "ignore_gitignore" } }

\* roots that are regular files the filters of a walk would drop: a hidden
\* file, one its own directory's .gitignore names, one --ignore names, one
\* with another extension, one that does not decode
FileRootInvocations ==
  { [ argv |-> [Argv0 EXCEPT !.paths = ps, !.extensions = es, !.ignore_patterns = ig,
                             !.flags = fl, !.no_config = TRUE],
      env |-> Env0,
      index |-> 1 ] :
    ps \in { << P(<<n_d, n_dot_b_txt>>) >>,
             << P(<<n_d, n_sub, n_skip_txt>>), P(<<n_d, n_build, n_x_tmp>>) >>,
             << P(<<n_d, n_dot_b_txt>>), P(<<n_d, n_sub, n_skip_txt>>),
                P(<<n_d, n_build, n_x_tmp>>), p_bin >> },
    es \in { <<>>, <<e_py>> },
    ig \in { {}, {g_tmp} },
    fl \in SUBSET { "include_hidden", "ignore_gitignore" } }

\* roots written with a trailing separator, as shell completion writes them
TrailingSeparatorInvocations ==
  { [ argv |-> [Argv0 EXCEPT !.paths = ps, !.flags = fl, !.no_config = TRUE],
      env |-> Env0,
      index |-> 1 ] :
    ps \in { <<p_d \o <<"/">> >>, <<p_sub \o <<"/">>, p_f_md>> },
    fl \in SUBSET { "ignore_gitignore", "include_hidden" } }

\* the output: sink, format and the counter left by an earlier invocation vary
OutputInvocations ==
  { [ argv |-> [Argv0 EXCEPT !.paths = ps, !.flags = fl, !.output_file = out,
                             !.no_config = TRUE],
      env |-> Env0,
      index |-> ix ] :
    ps \in { <<>>, <<p_d>>, <<p_bin, p_sub>>, <<p_sub, p_f_md, p_sub>> },
    fl \in SUBSET { "copy_to_clipboard", "claude_xml", "markdown", "line_numbers" },
    out \in { None, "out.txt" },
    ix \in { 1, 4 } }

\* standard input: its text, the separator and the command-line roots vary
StdinInvocations ==
  { [ argv |-> [Argv0 EXCEPT !.paths = ps, !.flags = fl, !.null = nul, !.no_config = TRUE],
      env |-> [Env0 EXCEPT !.stdin_isatty = tty, !.stdin_text = txt],
      index |-> 1 ] :
    ps \in { <<>>, <<p_f_md>>, <<p_build>> },
    fl \in { {}, {"claude_xml"} },
    nul \in BOOLEAN,
    tty \in BOOLEAN,
    txt \in StdinTexts }

\* command lines for the config families
ConfigArgvs ==
  { [Argv0 EXCEPT !.flags = fl] : fl \in { {} } \cup { {f} : f \in FlagNames } }
  \cup { [Argv0 EXCEPT !.extensions = <<e_txt>>],
         [Argv0 EXCEPT !.ignore_patterns = {g_log}],
         [Argv0 EXCEPT !.output_file = "out.txt"],
         [Argv0 EXCEPT !.output_file = ""],
         [Argv0 EXCEPT !.output_file = "out.txt", !.flags = {"copy_to_clipboard"}],
         [Argv0 EXCEPT !.no_config = TRUE] }

\* the config layers: the user file and the project file of the working
\* directory vary, with the command line
ConfigInvocations ==
  { [ argv |-> a,
      env |-> [Env0 EXCEPT !.home_config = user, !.project_files[CwdDepth] = project],
      index |-> 1 ] :
    a \in ConfigArgvs, user \in Layers, project \in Layers }

\* the config lookup: which directories hold a project file, and which user
\* files exist
LookupInvocations ==
  { [ argv |-> Argv0,
      env |-> [Env0 EXCEPT !.home_config = hc, !.home_dotfile = hd, !.project_files = pf],
      index |-> 1 ] :
    hc \in { NoFile, LayerA },
    hd \in { NoFile, LayerC },
    pf \in [0..CwdDepth -> { NoFile, LayerA, LayerB }] }

Invocations ==
  TraversalInvocations \cup PruneInvocations \cup FileRootInvocations
  \cup TrailingSeparatorInvocations
  \cup OutputInvocations \cup StdinInvocations
  \cup ConfigInvocations \cup LookupInvocations

Init ==
  \E inv \in Invocations :
    /\ argv = inv.argv
    /\ env = inv.env
    /\ global_index = inv.index
    /\ pc = "parse"
    /\ config = EmptyDict
    /\ extensions = inv.argv.extensions
    /\ ignore_patterns = inv.argv.ignore_patterns
    /\ include_hidden = ("include_hidden" \in inv.argv.flags)
    /\ ignore_files_only = ("ignore_files_only" \in inv.argv.flags)
    /\ ignore_gitignore = ("ignore_gitignore" \in inv.argv.flags)
    /\ copy_to_clipboard = ("copy_to_clipboard" \in inv.argv.flags)
    /\ claude_xml = ("claude_xml" \in inv.argv.flags)
    /\ markdown = ("markdown" \in inv.argv.flags)
    /\ line_numbers = ("line_numbers" \in inv.argv.flags)
    /\ output_file = inv.argv.output_file
    /\ paths = inv.argv.paths
    /\ path_i = 1
    /\ gitignore_rules = <<>>
    /\ writer = "echo"
    /\ fp = "None"
    /\ walk_stack = <<>>
    /\ files = <<>>
    /\ root = <<>>
    /\ stdout = <<>>
    /\ stderr = <<>>
    /\ file_content = <<>>
    /\ clipboard_buffer = <<>>
    /\ clipboard = <<>>
    /\ copied = FALSE
    /\ log = <<>>


(***************************************************************************)
(* cli(), step by step.                                                    *)
(***************************************************************************)
\* `path` of the for loop over paths
path == paths[path_i]

\* ctx.get_parameter_source(name).name: the name of the ParameterSource
\* member, in capitals as enum members are named
ParameterSourceName(name) == IF name \in argv.flags THEN "COMMANDLINE" ELSE "DEFAULT"

\* lines 422-427: _was_set compares that name with "commandline", which no
\* member's name equals
was_set(name) == ParameterSourceName(name) = "commandline"

\* the writer called with `items`, and click.echo (to stdout) with `echoed`
Output(items, echoed) ==
  /\ stdout' = (IF writer = "echo" THEN stdout \o items ELSE stdout) \o echoed
  /\ clipboard_buffer' =
       IF writer = "clipboard_buffer" THEN clipboard_buffer \o items ELSE clipboard_buffer
  /\ file_content' = IF writer = "fp" THEN file_content \o items ELSE file_content

\* read_paths_from_stdin
read_paths_from_stdin(use_null_separator, e) ==
  IF e.stdin_isatty THEN <<>>
  ELSE IF use_null_separator
    THEN NonEmpty(SplitKeep(e.stdin_text, {"NUL"}, <<>>))
    ELSE NonEmpty(SplitKeep(e.stdin_text, {" ", "NL"}, <<>>))

\* line 293: click converts every path argument with Path(exists=True) before
\* cli() runs, and ends the invocation with a usage error at the first that
\* does not exist
ParseArgs ==
  /\ pc = "parse"
  /\ IF \E i \in 1..Len(argv.paths) : ~exists(argv.paths[i])
       THEN /\ pc' = "usage_error"
            /\ stderr' = Append(stderr,
                 Item("usage_error",
                      argv.paths[CHOOSE i \in 1..Len(argv.paths) :
                                   /\ ~exists(argv.paths[i])
                                   /\ \A j \in 1..(i - 1) : exists(argv.paths[j])],
                      0, <<>>))
       ELSE /\ pc' = "load_config"
            /\ stderr' = stderr
  /\ UNCHANGED << argv, env, config, options, global_index, paths, path_i,
                  gitignore_rules, writer, fp, walk, stdout, file_content,
                  clipboard_buffer, clipboard, copied, history >>

\* line 419: load_config, with load_toml_file's warning for every file that
\* does not parse
LoadConfig ==
  /\ pc = "load_config"
  /\ config' = load_config(argv.no_config, env)
  /\ stderr' = stderr \o
       (IF argv.no_config THEN <<>>
        ELSE LET bad == SelectSeq(ConfigFiles(env), LAMBDA f : ~f.parses)
             IN  [i \in 1..Len(bad) |-> Item("config_warning", <<>>, 0, <<>>)])
  /\ pc' = "apply_config"
  /\ UNCHANGED << argv, env, options, global_index, paths, path_i, gitignore_rules,
                  writer, fp, walk, stdout, file_content, clipboard_buffer,
                  clipboard, copied, history >>

\* lines 429-454: the config's defaults applied to the parameters
ApplyExtensions(cli_value, cfg) ==
  IF cli_value = <<>> /\ "extensions" \in DOMAIN cfg THEN cfg["extensions"] ELSE cli_value

\* a mutant of ApplyIgnore: patterns given on the command line replace the config's
ApplyIgnore_CliReplaces(cli_value, cfg) ==
  IF cli_value = {} /\ "ignore" \in DOMAIN cfg THEN cfg["ignore"] ELSE cli_value

ApplyIgnore(cli_value, cfg) ==
  IF cli_value = {} /\ "ignore" \in DOMAIN cfg THEN cfg["ignore"]
  ELSE IF cli_value # {} /\ "ignore" \in DOMAIN cfg
    THEN cli_value \cup Get(cfg, "ignore", {})
    ELSE cli_value

ApplyFlag(name, key, cli_value, cfg) ==
  IF ~was_set(name) THEN Get(cfg, key, cli_value) ELSE cli_value

ApplyOutput(cli_value, cfg) ==
  IF ~Truthy(cli_value) /\ "output" \in DOMAIN cfg THEN cfg["output"] ELSE cli_value

ApplyConfig ==
  /\ pc = "apply_config"
  /\ extensions' = ApplyExtensions(extensions, config)
  /\ ignore_patterns' = ApplyIgnore(ignore_patterns, config)
  /\ include_hidden' = ApplyFlag("include_hidden", "include_hidden", include_hidden, config)
  /\ ignore_files_only' =
       ApplyFlag("ignore_files_only", "ignore_files_only", ignore_files_only, config)
  /\ ignore_gitignore' =
       ApplyFlag("ignore_gitignore", "ignore_gitignore", ignore_gitignore, config)
  /\ copy_to_clipboard' = ApplyFlag("copy_to_clipboard", "copy", copy_to_clipboard, config)
  /\ claude_xml' = ApplyFlag("claude_xml", "cxml", claude_xml, config)
  /\ markdown' = ApplyFlag("markdown", "markdown", markdown, config)
  /\ line_numbers' = ApplyFlag("line_numbers", "line_numbers", line_numbers, config)
  /\ output_file' = ApplyOutput(output_file, config)
  /\ pc' = "setup"
  /\ UNCHANGED << argv, env, config, global_index, paths, path_i, gitignore_rules,
                  writer, fp, walk, sinks, history >>

\* a mutant of CopyAfterConflict: the clipboard is kept beside the file
CopyAfterConflict_Kept(copy, out) == copy

\* lines 467-472: with both sinks asked for, the file wins
CopyAfterConflict(copy, out) == IF copy /\ Truthy(out) THEN FALSE ELSE copy

\* lines 475-484: the writer chosen
ChooseWriter(copy, out) ==
  IF copy THEN "clipboard_buffer" ELSE IF Truthy(out) THEN "fp" ELSE "echo"

\* a mutant of CombinePaths: the roots of standard input come first
CombinePaths_StdinFirst(cli_paths, stdin_paths) == stdin_paths \o cli_paths

\* line 464: paths = [*paths, *stdin_paths]
CombinePaths(cli_paths, stdin_paths) == cli_paths \o stdin_paths

\* lines 459-484: the counter reset, the roots combined, the sink opened
Setup ==
  /\ pc = "setup"
  /\ global_index' = 1
  /\ paths' = CombinePaths(paths, read_paths_from_stdin(argv.null, env))
  /\ stderr' = IF copy_to_clipboard /\ Truthy(output_file)
                 THEN Append(stderr, Item("note_output_overrides_copy", <<>>, 0, <<>>))
                 ELSE stderr
  /\ copy_to_clipboard' = CopyAfterConflict(copy_to_clipboard, output_file)
  /\ gitignore_rules' = <<>>
  /\ writer' = ChooseWriter(copy_to_clipboard', output_file)
  /\ fp' = IF writer' = "fp" THEN "open" ELSE "None"
  /\ pc' = "roots"
  /\ UNCHANGED << argv, env, config, extensions, ignore_patterns, include_hidden,
                  ignore_files_only, ignore_gitignore, claude_xml, markdown,
                  line_numbers, output_file, path_i, walk, stdout, file_content,
                  clipboard_buffer, clipboard, copied, history >>

\* a mutant of RootMissing: a root that does not exist is passed over and the
\* loop goes on with the next one
RootMissing_Continues ==
  /\ pc = "roots"
  /\ path_i <= Len(paths)
  /\ ~exists(path)
  /\ path_i' = path_i + 1
  /\ UNCHANGED << argv, env, pc, config, options, global_index, paths,
                  gitignore_rules, writer, fp, walk, sinks, history >>

\* lines 487-488: a root that does not exist ends the invocation
RootMissing ==
  /\ pc = "roots"
  /\ path_i <= Len(paths)
  /\ ~exists(path)
  /\ stderr' = Append(stderr, Item("usage_error", path, 0, <<>>))
  /\ pc' = "usage_error"
  /\ UNCHANGED << argv, env, config, options, global_index, paths, path_i,
                  gitignore_rules, writer, fp, walk, stdout, file_content,
                  clipboard_buffer, clipboard, copied, history >>

\* a mutant of SeedRules: the parent's .gitignore is read whatever ignore_gitignore is
SeedRules_Always(rules, p, ign_gitignore) == rules \o read_gitignore(dirname(p))

\* a mutant of SeedRules: every root starts from an empty rule list
SeedRules_Reset(rules, p, ign_gitignore) ==
  IF ~ign_gitignore THEN read_gitignore(dirname(p)) ELSE <<>>

\* the rules after line 490
SeedRules(rules, p, ign_gitignore) ==
  IF ~ign_gitignore THEN rules \o read_gitignore(dirname(p)) ELSE rules

\* lines 489-492: the parent's .gitignore read, <documents> written
EnterRoot ==
  /\ pc = "roots"
  /\ path_i <= Len(paths)
  /\ exists(path)
  /\ gitignore_rules' = SeedRules(gitignore_rules, path, ignore_gitignore)
  /\ Output(IF claude_xml /\ path = paths[1]
              THEN <<Item("<documents>", <<>>, 0, <<>>)>>
              ELSE <<>>,
            <<>>)
  /\ pc' = "process_path"
  /\ UNCHANGED << argv, env, config, options, global_index, paths, path_i,
                  writer, fp, walk, stderr, clipboard, copied, history >>

\* a mutant of Undecodable: a hidden file is given up as well
Undecodable_OrHidden(p) == p \in NotUtf8 \/ startswith(basename(p), <<".">>)

\* open(path).read() raises UnicodeDecodeError
Undecodable(p) == p \in NotUtf8

\* a mutant of DecodeFailureItems: the path header is written before the read
DecodeFailureItems_Header(p) == <<Item("path", norm_path(p), 0, <<>>)>>

\* What the writer has received of a file when its read raises
\* UnicodeDecodeError: f.read() is an argument of print_path (lines 221 and
\* 264-271), so it raises before print_path is entered.
DecodeFailureItems(p) == <<>>

\* the warning of lines 223-224 and 273-276
SkipWarning(p) == Item("warning_skipping", norm_path(p), 0, <<>>)

\* a mutant of NextIndex: the counter is never incremented
NextIndex_Stuck(index, cxml) == index

\* global_index after print_path
NextIndex(index, cxml) == IF cxml THEN index + 1 ELSE index

\* lines 218-221: a root that is a file is printed as it is
ProcessFile ==
  /\ pc = "process_path"
  /\ isfile(path)
  /\ ~Undecodable(path)
  /\ Output(print_path(path, FileLines[path], claude_xml, markdown, line_numbers,
                       global_index),
            <<>>)
  /\ global_index' = NextIndex(global_index, claude_xml)
  /\ log' = Append(log, Event("yield", path, path_i, gitignore_rules))
  /\ path_i' = path_i + 1
  /\ pc' = "roots"
  /\ UNCHANGED << argv, env, config, options, paths, gitignore_rules, writer, fp,
                  walk, stderr, clipboard, copied >>

\* lines 222-224: a root that is a file and does not decode is skipped
ProcessFileSkip ==
  /\ pc = "process_path"
  /\ isfile(path)
  /\ Undecodable(path)
  /\ Output(DecodeFailureItems(path), <<SkipWarning(path)>>)
  /\ log' = Append(log, Event("skip", path, path_i, gitignore_rules))
  /\ path_i' = path_i + 1
  /\ pc' = "roots"
  /\ UNCHANGED << argv, env, config, options, global_index, paths, gitignore_rules,
                  writer, fp, walk, stderr, clipboard, copied >>

\* lines 225-226: os.walk starts at a root that is a directory
WalkStart ==
  /\ pc = "process_path"
  /\ ~isfile(path)
  /\ isdir(path)
  /\ walk_stack' = <<path>>
  /\ files' = <<>>
  /\ root' = <<>>
  /\ pc' = "walk"
  /\ UNCHANGED << argv, env, config, options, global_index, paths, path_i,
                  gitignore_rules, writer, fp, sinks, history >>

\* a mutant of ExtendRules: the walked directory's own .gitignore is not read
ExtendRules_NotRead(rules, dir, ign_gitignore) == rules

\* the rules after line 232
ExtendRules(rules, dir, ign_gitignore) ==
  IF ~ign_gitignore THEN rules \o read_gitignore(dir) ELSE rules

\* the subdirectories os.walk goes on to, after lines 227-250
KeptDirs(dir, dirs, rules) ==
  IgnoreDirsFilter(
    GitignoreFilter(dir, HiddenFilter(dirs, include_hidden), rules, ignore_gitignore),
    ignore_patterns, ignore_files_only)

\* the files printed, after lines 227-260
KeptFiles(dir, names, rules) ==
  sorted(
    ExtensionFilter(
      IgnoreFilesFilter(
        GitignoreFilter(dir, HiddenFilter(names, include_hidden), rules, ignore_gitignore),
        ignore_patterns),
      extensions))

\* a mutant of PushDirs: the kept subdirectories are queued a second time
\* behind what was waiting
PushDirs_Twice(dir, kept, stack) ==
  [i \in 1..Len(kept) |-> join(dir, kept[i])] \o stack
    \o [i \in 1..Len(kept) |-> join(dir, kept[i])]

\* the directories os.walk yields after `dir`: its kept subdirectories, in
\* order, before what was already waiting
PushDirs(dir, kept, stack) == [i \in 1..Len(kept) |-> join(dir, kept[i])] \o stack

\* lines 226-260: os.walk yields the next directory, its entries listed in
\* some order; the entries are filtered
VisitDir ==
  /\ pc = "walk"
  /\ files = <<>>
  /\ walk_stack # <<>>
  /\ LET dir   == Head(walk_stack)
         rules == ExtendRules(gitignore_rules, dir, ignore_gitignore)
     IN  /\ root' = dir
         /\ gitignore_rules' = rules
         /\ files' \in { KeptFiles(dir, fs, rules) : fs \in ScanDir(dir).files }
         /\ walk_stack' \in { PushDirs(dir, KeptDirs(dir, ds, rules), Tail(walk_stack)) :
                               ds \in ScanDir(dir).dirs }
         /\ log' = Append(log, Event("visit", dir, path_i, rules))
  /\ UNCHANGED << argv, env, pc, config, options, global_index, paths, path_i,
                  writer, fp, sinks >>

\* lines 260-271: the next file of the directory is printed
EmitFile ==
  /\ pc = "walk"
  /\ files # <<>>
  /\ LET file_path == join(root, Head(files))
     IN  /\ ~Undecodable(file_path)
         /\ Output(print_path(file_path, FileLines[file_path], claude_xml, markdown,
                              line_numbers, global_index),
                   <<>>)
         /\ log' = Append(log, Event("yield", file_path, path_i, gitignore_rules))
  /\ global_index' = NextIndex(global_index, claude_xml)
  /\ files' = Tail(files)
  /\ UNCHANGED << argv, env, pc, config, options, paths, path_i, gitignore_rules,
                  writer, fp, walk_stack, root, stderr, clipboard, copied >>

\* lines 272-276: a file that does not decode is skipped with a warning
SkipFile ==
  /\ pc = "walk"
  /\ files # <<>>
  /\ LET file_path == join(root, Head(files))
     IN  /\ Undecodable(file_path)
         /\ Output(DecodeFailureItems(file_path), <<SkipWarning(file_path)>>)
         /\ log' = Append(log, Event("skip", file_path, path_i, gitignore_rules))
  /\ files' = Tail(files)
  /\ UNCHANGED << argv, env, pc, config, options, global_index, paths, path_i,
                  gitignore_rules, writer, fp, walk_stack, root, stderr, clipboard,
                  copied >>

\* os.walk is exhausted: process_path returns and the for loop goes on
WalkDone ==
  /\ pc = "walk"
  /\ files = <<>>
  /\ walk_stack = <<>>
  /\ path_i' = path_i + 1
  /\ pc' = "roots"
  /\ UNCHANGED << argv, env, config, options, global_index, paths, gitignore_rules,
                  writer, fp, walk, sinks, history >>

\* lines 506-509: after the last root, </documents> is written
Finish ==
  /\ pc = "roots"
  /\ path_i > Len(paths)
  /\ Output(IF claude_xml THEN <<Item("</documents>", <<>>, 0, <<>>)>> ELSE <<>>, <<>>)
  /\ pc' = IF copy_to_clipboard THEN "clipboard" ELSE "close"
  /\ UNCHANGED << argv, env, config, options, global_index, paths, path_i,
                  gitignore_rules, writer, fp, walk, stderr, clipboard, copied, history >>

\* lines 511-518: pyperclip cannot be imported
ClipboardImportError ==
  /\ pc = "clipboard"
  /\ stderr' = Append(stderr, Item("error_copy_requires_pyperclip", <<>>, 0, <<>>))
  /\ pc' = "click_exception"
  /\ UNCHANGED << argv, env, config, options, global_index, paths, path_i,
                  gitignore_rules, writer, fp, walk, stdout, file_content,
                  clipboard_buffer, clipboard, copied, history >>

\* lines 519-521: the buffer is copied
ClipboardCopy ==
  /\ pc = "clipboard"
  /\ clipboard' = clipboard_buffer
  /\ copied' = TRUE
  /\ stdout' = Append(stdout, Item("output_copied_to_clipboard", <<>>, 0, <<>>))
  /\ pc' = "close"
  /\ UNCHANGED << argv, env, config, options, global_index, paths, path_i,
                  gitignore_rules, writer, fp, walk, stderr, file_content,
                  clipboard_buffer, history >>

\* lines 522-532: pyperclip.copy raises; the buffer is echoed instead.
\* content ends with the line break of the last line written and click.echo
\* adds its own, so one empty line follows the buffer's lines
ClipboardCopyFails ==
  /\ pc = "clipboard"
  /\ copied' = TRUE
  /\ stderr' = Append(stderr, Item("failed_to_copy_output_follows", <<>>, 0, <<>>))
  /\ stdout' = stdout \o clipboard_buffer \o <<Item("", <<>>, 0, <<>>)>>
  /\ pc' = "close"
  /\ UNCHANGED << argv, env, config, options, global_index, paths, path_i,
                  gitignore_rules, writer, fp, walk, file_content, clipboard_buffer,
                  clipboard, history >>

\* lines 534-535: the output file is closed and cli() returns
Close ==
  /\ pc = "close"
  /\ fp' = IF fp = "open" THEN "closed" ELSE fp
  /\ pc' = "done"
  /\ UNCHANGED << argv, env, config, options, global_index, paths, path_i,
                  gitignore_rules, writer, walk, sinks, history >>

Next ==
  \/ ParseArgs
  \/ LoadConfig
  \/ ApplyConfig
  \/ Setup
  \/ RootMissing
  \/ EnterRoot
  \/ ProcessFile
  \/ ProcessFileSkip
  \/ WalkStart
  \/ VisitDir
  \/ EmitFile
  \/ SkipFile
  \/ WalkDone
  \/ Finish
  \/ ClipboardImportError
  \/ ClipboardCopy
  \/ ClipboardCopyFails
  \/ Close

Spec == Init /\ [][Next]_vars


(***************************************************************************)
(* Vocabulary of the properties.                                           *)
(***************************************************************************)
\* click rejected the command line: cli() never ran
ParseFailed == \E i \in 1..Len(argv.paths) : ~exists(argv.paths[i])

\* load_config has returned
ConfigLoaded == pc \notin {"parse", "load_config"} /\ ~ParseFailed

\* the config has been applied to the parameters
Resolved == ConfigLoaded /\ pc # "apply_config"

\* The defaults table a config file contributes: none when the file is
\* absent, does not parse or has no such table.
DefaultsOf(file) ==
  IF file.exists /\ file.parses /\ "defaults" \in DOMAIN file.toml
    THEN file.toml["defaults"]
    ELSE EmptyDict

\* the user-level file: the one in ~/.config first, else the dotfile
UserFile ==
  IF env.home_config.exists THEN env.home_config ELSE env.home_dotfile

\* the project-level file: the one load_config has found
ProjectFile ==
  IF find_project_config(env) = -1 THEN NoFile
  ELSE env.project_files[find_project_config(env)]

UserLayer == IF argv.no_config THEN EmptyDict ELSE DefaultsOf(UserFile)

ProjectLayer == IF argv.no_config THEN EmptyDict ELSE DefaultsOf(ProjectFile)

(***************************************************************************)
(* C1.  When the user-level and the project-level config both define a     *)
(* key other than `ignore`, the merged configuration of load_config holds  *)
(* the project layer's value (project overrides user).                     *)
(*                                                                         *)
(* Violated: load_config appends the user config first and merge_configs   *)
(* lets the first config win, so the user layer's value is kept.           *)
(***************************************************************************)
C1_ProjectOverridesUser ==
  ConfigLoaded =>
    \A key \in (DOMAIN UserLayer \cap DOMAIN ProjectLayer) \ {"ignore"} :
      config[key] = ProjectLayer[key]

(***************************************************************************)
(* C2.  Every override-semantics option takes its command-line value when  *)
(* it was given on the command line, else the config's value for its key,  *)
(* else the built-in default (false, empty, none).                         *)
(*                                                                         *)
(* Violated for the boolean options: _was_set compares the parameter       *)
(* source's name, "COMMANDLINE", with "commandline" and is false for every *)
(* option, so the config's value replaces a flag given on the command      *)
(* line.  Violated for output: lines 453-454 test the value, not whether   *)
(* it was given, so -o "" falls back to the config's output.               *)
(***************************************************************************)
\* the config key of each boolean option
ConfigKey ==
  [ include_hidden |-> "include_hidden", ignore_files_only |-> "ignore_files_only",
    ignore_gitignore |-> "ignore_gitignore", copy_to_clipboard |-> "copy",
    claude_xml |-> "cxml", markdown |-> "markdown", line_numbers |-> "line_numbers" ]

\* the value cli() holds for each boolean option before the sink conflict is settled
FlagValue ==
  [ include_hidden |-> include_hidden, ignore_files_only |-> ignore_files_only,
    ignore_gitignore |-> ignore_gitignore, copy_to_clipboard |-> copy_to_clipboard,
    claude_xml |-> claude_xml, markdown |-> markdown, line_numbers |-> line_numbers ]

C2_FlagsOverride ==
  \A name \in FlagNames :
    FlagValue[name] =
      IF name \in argv.flags THEN TRUE
      ELSE IF ConfigKey[name] \in DOMAIN config THEN config[ConfigKey[name]]
      ELSE FALSE

C2_ExtensionsOverride ==
  extensions =
    IF argv.extensions # <<>> THEN argv.extensions
    ELSE IF "extensions" \in DOMAIN config THEN config["extensions"]
    ELSE <<>>

C2_OutputOverrides ==
  output_file =
    IF argv.output_file # None THEN argv.output_file
    ELSE IF "output" \in DOMAIN config THEN config["output"]
    ELSE None

C2_OverrideOptions ==
  pc = "setup" => C2_FlagsOverride /\ C2_ExtensionsOverride /\ C2_OutputOverrides


(***************************************************************************)
(* The history read.                                                       *)
(***************************************************************************)
Count(seq, Test(_)) == Len(SelectSeq(seq, Test))

\* the events of each kind, by position in the log
Yields == { i \in DOMAIN log : log[i].ev = "yield" }
Skips  == { i \in DOMAIN log : log[i].ev = "skip" }
Visits == { i \in DOMAIN log : log[i].ev = "visit" }

\* a file found by the directory walk, not given as a root
FoundInWalk(e) == e.ev \in {"yield", "skip"} /\ e.path # paths[e.arg]

\* the items print_path and the <documents> lines produce, as against the
\* diagnostics
Diagnostics ==
  { "usage_error", "config_warning", "note_output_overrides_copy", "warning_skipping",
    "error_copy_requires_pyperclip", "output_copied_to_clipboard",
    "failed_to_copy_output_follows" }

IsContent(item) == item.k \notin Diagnostics

(***************************************************************************)
(* C3.  The effective --ignore set is the union of the patterns of the     *)
(* command line and of every config layer that defines `ignore`; no file   *)
(* found by a directory walk that matches a pattern of any of these        *)
(* sources is printed.                                                     *)
(***************************************************************************)
IgnoreSources ==
  argv.ignore_patterns \cup Get(UserLayer, "ignore", {}) \cup Get(ProjectLayer, "ignore", {})

C3_IgnoreUnion ==
  Resolved =>
    /\ ignore_patterns = IgnoreSources
    /\ \A i \in Yields :
         FoundInWalk(log[i]) =>
           \A pattern \in IgnoreSources : ~fnmatch(basename(log[i].path), pattern)

\* a finished run with patterns from the command line and from both layers,
\* in which the walk met a file of each source's pattern
C3_Witness ==
  /\ pc = "done"
  /\ argv.ignore_patterns = {g_log}
  /\ Get(UserLayer, "ignore", {}) = {g_tmp}
  /\ Get(ProjectLayer, "ignore", {}) = {g_skip_txt}
  /\ \E i \in Visits : log[i].path = p_build
  /\ \E i \in Yields : log[i].path = P(<<n_d, n_build, n_keep_py>>)

(***************************************************************************)
(* C4.  When copy-to-clipboard and an output file are both in force after  *)
(* the command line and the config are merged, every record goes to the    *)
(* file and none to stdout or to the clipboard buffer, one notice is       *)
(* written, and pyperclip.copy is never called.                            *)
(***************************************************************************)
CopyRequested == "copy_to_clipboard" \in argv.flags \/ Get(config, "copy", FALSE)

OutputRequested ==
  Truthy(argv.output_file) \/ ("output" \in DOMAIN config /\ Truthy(config["output"]))

SinkConflict == Resolved /\ pc # "setup" /\ CopyRequested /\ OutputRequested

C4_FileWinsOverClipboard ==
  SinkConflict =>
    /\ \A i \in DOMAIN stdout : ~IsContent(stdout[i])
    /\ clipboard_buffer = <<>>
    /\ clipboard = <<>>
    /\ ~copied
    /\ pc # "clipboard"
    /\ Count(stderr, LAMBDA item : item.k = "note_output_overrides_copy") = 1
    /\ Count(file_content, LAMBDA item : item.k = "content") = Cardinality(Yields)
    /\ pc = "done" => fp = "closed"

\* a finished run whose copy came from the config and whose file came from
\* the command line, with records written
C4_Witness ==
  /\ pc = "done"
  /\ SinkConflict
  /\ "copy_to_clipboard" \notin argv.flags
  /\ Truthy(argv.output_file)
  /\ Cardinality(Yields) > 2


(***************************************************************************)
(* The walk read from the history.                                         *)
(***************************************************************************)
\* the components of a path
Components(p) == NonEmpty(SplitKeep(p, {"/"}, <<>>))

\* the components of an event's path below the root argument it belongs to
BelowRoot(e) ==
  SubSeq(Components(e.path), Len(Components(paths[e.arg])) + 1, Len(Components(e.path)))

IsHidden(name) == name # <<>> /\ name[1] = "."

\* the names a directory holds
FilesIn(dir) == Range(DirEntries[Canon(dir)].files)
DirsIn(dir)  == Range(DirEntries[Canon(dir)].dirs)

\* p is dir or lies beneath it
Under(p, dir) == p = dir \/ startswith(p, Canon(dir) \o <<"/">>)

\* the last directory os.walk has yielded
LastVisit == CHOOSE i \in Visits : \A j \in Visits : j <= i

\* File f of the directory visited at log position i has been printed or
\* skipped since, or is still waiting to be.
FileAccounted(i, f) ==
  \/ \E j \in (Yields \cup Skips) :
       j > i /\ log[j].arg = log[i].arg /\ log[j].path = join(log[i].path, f)
  \/ pc = "walk" /\ i = LastVisit /\ f \in Range(files)

\* Subdirectory d of the directory visited at log position i has been
\* walked since, or is still waiting to be.
DirAccounted(i, d) ==
  \/ \E j \in Visits :
       j > i /\ log[j].arg = log[i].arg /\ log[j].path = join(log[i].path, d)
  \/ pc = "walk" /\ join(log[i].path, d) \in Range(walk_stack)

\* each filter, as a condition on one name
NotGitignoredFile(f, rules) ==
  ignore_gitignore \/ \A k \in DOMAIN rules : ~fnmatch(f, rules[k])

NotGitignoredDir(d, rules) ==
  ignore_gitignore
  \/ \A k \in DOMAIN rules : ~fnmatch(d, rules[k]) /\ ~fnmatch(d \o <<"/">>, rules[k])

MatchesIgnoreOption(name) == \E pattern \in ignore_patterns : fnmatch(name, pattern)

HasAllowedSuffix(f) ==
  \E k \in DOMAIN extensions :
    /\ Len(f) >= Len(extensions[k])
    /\ \A m \in 1..Len(extensions[k]) :
         f[Len(f) - Len(extensions[k]) + m] = extensions[k][m]

(***************************************************************************)
(* C5.  With include_hidden false, no entry whose name starts with "." is  *)
(* kept by a directory walk: no file printed or skipped and no directory   *)
(* walked has a component below its root that starts with ".", whatever    *)
(* the other filters say.  With include_hidden true, a hidden entry is     *)
(* kept exactly when the other filters (.gitignore rules, --ignore,        *)
(* extensions) keep it.                                                    *)
(***************************************************************************)
C5_HiddenEntries ==
  Resolved =>
    /\ ~include_hidden =>
         \A i \in DOMAIN log :
           \A k \in DOMAIN BelowRoot(log[i]) : ~IsHidden(BelowRoot(log[i])[k])
    /\ include_hidden =>
         \A i \in Visits :
           /\ \A f \in FilesIn(log[i].path) :
                IsHidden(f) =>
                  (FileAccounted(i, f) <=>
                     /\ NotGitignoredFile(f, log[i].rules)
                     /\ ~MatchesIgnoreOption(f)
                     /\ (extensions = <<>> \/ HasAllowedSuffix(f)))
           /\ \A d \in DirsIn(log[i].path) :
                IsHidden(d) =>
                  (DirAccounted(i, d) <=>
                     /\ NotGitignoredDir(d, log[i].rules)
                     /\ (ignore_files_only \/ ~MatchesIgnoreOption(d)))

\* a finished walk of d, which holds .b.txt and .hid/, without include_hidden,
\* with no other filter in force
C5_Witness ==
  /\ pc = "done"
  /\ ~include_hidden
  /\ ignore_gitignore /\ ignore_patterns = {} /\ extensions = <<>>
  /\ \E i \in Visits : log[i].path = p_d
  /\ \E i \in Yields : log[i].path = P(<<n_d, n_a_txt>>)


(***************************************************************************)
(* C6.  No file found by a walk whose name matches an --ignore pattern is  *)
(* printed, at any depth.  With ignore_files_only set, a subdirectory      *)
(* whose name matches an --ignore pattern is walked whenever the hidden    *)
(* and .gitignore filters keep it, and its files that pass the filters     *)
(* are printed; with ignore_files_only unset it is pruned: it is not       *)
(* walked and nothing beneath it is printed.                               *)
(***************************************************************************)
C6_IgnoreFilesOnly ==
  Resolved =>
    /\ \A i \in Yields \cup Skips :
         FoundInWalk(log[i]) => ~MatchesIgnoreOption(basename(log[i].path))
    /\ \A i \in Visits :
         /\ \A d \in DirsIn(log[i].path) :
              MatchesIgnoreOption(d) =>
                IF ignore_files_only
                  THEN DirAccounted(i, d) <=>
                         /\ (include_hidden \/ ~IsHidden(d))
                         /\ NotGitignoredDir(d, log[i].rules)
                  ELSE /\ ~DirAccounted(i, d)
                       /\ \A j \in DOMAIN log :
                            j > i /\ log[j].arg = log[i].arg
                              => ~Under(log[j].path, join(log[i].path, d))
         /\ \A f \in FilesIn(log[i].path) :
              /\ \E k \in DOMAIN BelowRoot(log[i]) : MatchesIgnoreOption(BelowRoot(log[i])[k])
              /\ (include_hidden \/ ~IsHidden(f))
              /\ NotGitignoredFile(f, log[i].rules)
              /\ ~MatchesIgnoreOption(f)
              /\ (extensions = <<>> \/ HasAllowedSuffix(f))
              => FileAccounted(i, f)

\* a finished walk of d with --ignore build --ignore *.tmp --ignore-files-only:
\* build/ was walked, build/keep.py printed and build/x.tmp not
C6_Witness ==
  /\ pc = "done"
  /\ ignore_files_only
  /\ ignore_patterns = {g_build, g_tmp}
  /\ \E i \in Visits : log[i].path = p_build
  /\ \E i \in Yields : log[i].path = P(<<n_d, n_build, n_keep_py>>)
  /\ \A i \in Yields : log[i].path # P(<<n_d, n_build, n_x_tmp>>)


(***************************************************************************)
(* C7.  The patterns of a walked directory's own .gitignore exclude the    *)
(* matching entries found in that directory and beneath it from then on,   *)
(* and exclude no file of a subtree walked before that directory was       *)
(* visited: such a file is printed whenever the filters, with the rules    *)
(* loaded up to its own directory's visit, keep it.                        *)
(***************************************************************************)
\* the four file filters on one name, with the rules loaded so far
PassesFileFilters(f, rules) ==
  /\ (include_hidden \/ ~IsHidden(f))
  /\ NotGitignoredFile(f, rules)
  /\ ~MatchesIgnoreOption(f)
  /\ (extensions = <<>> \/ HasAllowedSuffix(f))

C7_NestedIgnoreFile ==
  Resolved /\ ~ignore_gitignore =>
    \A i \in Visits :
      LET own == read_gitignore(log[i].path)
      IN  /\ \A j \in DOMAIN log :
                /\ j > i
                /\ Under(log[j].path, log[i].path)
                /\ BelowRoot(log[j]) # <<>>
                => ~AnyMatch(basename(log[j].path), own)
          /\ \A j \in Visits :
                /\ j < i
                /\ log[j].arg = log[i].arg
                /\ ~Under(log[i].path, log[j].path)
                => \A f \in FilesIn(log[j].path) :
                     AnyMatch(f, own) /\ PassesFileFilters(f, log[j].rules)
                       => \E k \in Yields \cup Skips :
                            j < k /\ k < i /\ log[k].path = join(log[j].path, f)

\* a finished walk of d in which build/ came before sub/: build/skip.txt was
\* printed before sub/.gitignore ("skip.txt") was loaded, sub/skip.txt and
\* sub/deep/skip.txt were not printed, sub/deep/ok.txt was
C7_Witness ==
  /\ pc = "done"
  /\ ~ignore_gitignore
  /\ \E i \in Visits, j \in Yields :
       /\ j < i
       /\ log[i].path = p_sub
       /\ log[j].path = P(<<n_d, n_build, n_skip_txt>>)
  /\ \E i \in Yields : log[i].path = P(<<n_d, n_sub, n_deep, n_ok_txt>>)
  /\ \A i \in Yields : basename(log[i].path) = n_skip_txt => Under(log[i].path, p_build)


(***************************************************************************)
(* C8.  With ignore_gitignore true no .gitignore is read, neither a        *)
(* root's parent's nor a walked directory's: gitignore_rules is empty in   *)
(* every state, and every entry of a walked directory that the hidden,     *)
(* --ignore and extension filters keep is printed or walked.               *)
(***************************************************************************)
C8_IgnoreGitignore ==
  ignore_gitignore =>
    /\ gitignore_rules = <<>>
    /\ \A i \in Visits :
         /\ log[i].rules = <<>>
         /\ \A f \in FilesIn(log[i].path) :
              /\ (include_hidden \/ ~IsHidden(f))
              /\ ~MatchesIgnoreOption(f)
              /\ (extensions = <<>> \/ HasAllowedSuffix(f))
              => FileAccounted(i, f)
         /\ \A d \in DirsIn(log[i].path) :
              /\ (include_hidden \/ ~IsHidden(d))
              /\ (ignore_files_only \/ ~MatchesIgnoreOption(d))
              => DirAccounted(i, d)

\* a finished walk of d with --ignore-gitignore: d/e.log (*.log in the
\* parent's .gitignore) and d/sub/skip.txt (skip.txt in d/sub/.gitignore)
\* were printed
C8_Witness ==
  /\ pc = "done"
  /\ ignore_gitignore
  /\ \E i \in Yields : log[i].path = P(<<n_d, n_e_log>>)
  /\ \E i \in Yields : log[i].path = P(<<n_d, n_sub, n_skip_txt>>)
  /\ \E i \in Yields : log[i].path = P(<<n_d, n_sub, n_deep, n_skip_txt>>)

(***************************************************************************)
(* C9.  With extensions given, every file a walk prints (or fails to       *)
(* decode) ends with one of them, and the subdirectories walked are those  *)
(* the hidden, .gitignore and --ignore filters keep, whatever their        *)
(* names.  -e py -e md over d, with no other filter, finds exactly the     *)
(* .py and .md files.                                                      *)
(***************************************************************************)
C9_ExtensionFilter ==
  Resolved /\ extensions # <<>> =>
    /\ \A i \in Yields \cup Skips :
         FoundInWalk(log[i]) => HasAllowedSuffix(basename(log[i].path))
    /\ \A i \in Visits :
         \A d \in DirsIn(log[i].path) :
           DirAccounted(i, d) <=>
             /\ (include_hidden \/ ~IsHidden(d))
             /\ NotGitignoredDir(d, log[i].rules)
             /\ (ignore_files_only \/ ~MatchesIgnoreOption(d))
    /\ ( /\ pc = "done"
         /\ paths = <<p_d>>
         /\ extensions = <<e_py, e_md>>
         /\ ~include_hidden /\ ignore_gitignore /\ ignore_patterns = {} )
       => /\ { log[i].path : i \in Yields } =
               { P(<<n_d, n_c_md>>), P(<<n_d, n_build, n_keep_py>>),
                 P(<<n_d, n_sub, n_keep_py>>) }
          /\ { log[i].path : i \in Skips } = { P(<<n_d, n_bin_py>>) }
          /\ { log[i].path : i \in Visits } = { p_d, p_build, p_sub, p_deep }

\* the finished run of -e py -e md over d, d/sub/deep (no .py, no .md) walked
C9_Witness ==
  /\ pc = "done"
  /\ paths = <<p_d>>
  /\ extensions = <<e_py, e_md>>
  /\ ~include_hidden /\ ignore_gitignore /\ ignore_patterns = {}
  /\ \E i \in Visits : log[i].path = p_deep
  /\ \E i \in Yields : log[i].path = P(<<n_d, n_c_md>>)

(***************************************************************************)
(* C10.  A file that does not decode leaves no content item naming it in   *)
(* any sink, gets one warning per time it is met, and does not stop the    *)
(* run: every file of a walked directory that passes the filters is        *)
(* printed or skipped, skipped only when it does not decode, and a         *)
(* finished run has processed every root.                                  *)
(***************************************************************************)
SkippedPaths == { log[i].path : i \in Skips }

C10_DecodeFailure ==
  /\ \A p \in SkippedPaths :
       /\ \A i \in DOMAIN stdout : IsContent(stdout[i]) => stdout[i].s # norm_path(p)
       /\ \A i \in DOMAIN file_content : file_content[i].s # norm_path(p)
       /\ \A i \in DOMAIN clipboard_buffer : clipboard_buffer[i].s # norm_path(p)
       /\ Count(stdout, LAMBDA item : item.k = "warning_skipping" /\ item.s = norm_path(p))
            = Cardinality({ i \in Skips : log[i].path = p })
  /\ Count(stdout, LAMBDA item : item.k = "warning_skipping") = Cardinality(Skips)
  /\ \A i \in Skips : log[i].path \in NotUtf8
  /\ \A i \in Yields : log[i].path \notin NotUtf8
  /\ \A i \in Visits :
       \A f \in FilesIn(log[i].path) :
         PassesFileFilters(f, log[i].rules) => FileAccounted(i, f)
  /\ pc = "done" => \A r \in 1..Len(paths) : \E i \in DOMAIN log : log[i].arg = r

\* a finished run over d and f.md: d/bin.py was skipped, d/a.txt printed
\* before it, d/c.md after it, d/build/keep.py in another directory and f.md
\* as the next root
C10_Witness ==
  /\ pc = "done"
  /\ paths = <<p_d, p_f_md>>
  /\ \E i \in Yields, j \in Skips, k \in Yields, l \in Yields, m \in Yields :
       /\ i < j /\ j < k /\ k < l /\ l < m
       /\ log[i].path = P(<<n_d, n_a_txt>>)
       /\ log[j].path = p_bin
       /\ log[k].path = P(<<n_d, n_c_md>>)
       /\ Under(log[l].path, p_build)
       /\ log[m].path = p_f_md /\ log[m].arg = 2


(***************************************************************************)
(* C11.  The notices of non-fatal conditions (a file skipped for not       *)
(* decoding, a config file that does not parse, -o overriding -C, a        *)
(* failed clipboard copy) are written to stderr only: none is ever an item *)
(* of stdout, of the output file or of the clipboard buffer.               *)
(***************************************************************************)
NonFatalNotices ==
  { "warning_skipping", "config_warning", "note_output_overrides_copy",
    "failed_to_copy_output_follows" }

C11_NoticesOnStderr ==
  \A sink \in { stdout, file_content, clipboard_buffer } :
    \A i \in DOMAIN sink : sink[i].k \notin NonFatalNotices

(***************************************************************************)
(* C12.  The combined root list is the command line's roots followed by    *)
(* standard input's.  When the root loop reaches a root that does not      *)
(* exist, every earlier root has been processed and no later one; the next *)
(* step ends the invocation with a usage error naming that root and        *)
(* changes nothing else, so no record of that root is written and the      *)
(* sinks hold what the earlier roots streamed, without the closing         *)
(* </documents>; and nothing happens after a usage error, so no record of  *)
(* a later root is written either.                                         *)
(***************************************************************************)
CombinedRoots == argv.paths \o read_paths_from_stdin(argv.null, env)

MissingRoots == { r \in DOMAIN CombinedRoots : ~exists(CombinedRoots[r]) }

FirstMissing == CHOOSE r \in MissingRoots : \A q \in MissingRoots : r <= q

RootProcessed(r) == \E i \in DOMAIN log : log[i].arg = r

\* the loop of line 486 is at a root that does not exist
LoopAtMissingRoot == pc = "roots" /\ path_i <= Len(paths) /\ ~exists(paths[path_i])

C12_AbortStep ==
  /\ LoopAtMissingRoot =>
       /\ paths = CombinedRoots
       /\ path_i = FirstMissing
       /\ \A r \in 1..(path_i - 1) : RootProcessed(r)
       /\ \A i \in DOMAIN log : log[i].arg < path_i
       /\ \A sink \in { stdout, file_content, clipboard_buffer } :
            \A i \in DOMAIN sink : sink[i].k # "</documents>"
       /\ pc' = "usage_error"
       /\ stderr' = Append(stderr, Item("usage_error", paths[path_i], 0, <<>>))
       /\ stdout' = stdout
       /\ file_content' = file_content
       /\ clipboard_buffer' = clipboard_buffer
       /\ clipboard' = clipboard
       /\ log' = log
  /\ pc = "usage_error" => FALSE

C12_MissingRootAborts == [][C12_AbortStep]_vars

\* f.md on the command line, then f.md, a missing root and d/sub on standard
\* input: the loop reached the missing third root and ended with the usage
\* error; both f.md were printed before it, d/sub was not
C12_Witness ==
  /\ pc = "usage_error"
  /\ argv.paths = <<p_f_md>>
  /\ paths = CombinedRoots
  /\ path_i = 3
  /\ ~exists(paths[3])
  /\ Len(paths) = 4
  /\ \E i, j \in Yields : log[i].arg = 1 /\ log[j].arg = 2
  /\ ~RootProcessed(4)
  /\ stdout # <<>>


(***************************************************************************)
(* C13.  When -C is in effect and the clipboard is unavailable (pyperclip  *)
(* cannot be imported, or pyperclip.copy raises), only the copy is given   *)
(* up: the invocation goes on to its end, a message goes to stderr and the *)
(* collected output is written to stdout.                                  *)
(***************************************************************************)
ClipboardUnavailable ==
  \E i \in DOMAIN stderr :
    stderr[i].k \in { "error_copy_requires_pyperclip", "failed_to_copy_output_follows" }

\* the lines of `block` stand in seq, one after the other
Holds(seq, block) ==
  \E k \in 0..(Len(seq) - Len(block)) : SubSeq(seq, k + 1, k + Len(block)) = block

C13_ClipboardFallback ==
  ClipboardUnavailable =>
    /\ pc \in { "close", "done" }
    /\ Holds(stdout, clipboard_buffer)
    /\ clipboard = <<>>


(***************************************************************************)
(* C14.  The loop takes the roots in the order of the command line         *)
(* followed by the order of standard input: the root positions of the      *)
(* events never decrease, every event lies at or under the root of its     *)
(* position, and the records in the sink are the printed files in the      *)
(* order of the events, so every record of an earlier root precedes every  *)
(* record of a later one.                                                  *)
(***************************************************************************)
InRootLoop == pc \in { "roots", "process_path", "walk", "clipboard", "close", "done" }

\* the sink the writer writes to
WriterSink ==
  IF writer = "echo" THEN SelectSeq(stdout, IsContent)
  ELSE IF writer = "fp" THEN file_content
  ELSE clipboard_buffer

\* the paths of the record headers of a sink, in order
Headers(sink) ==
  LET h == SelectSeq(sink, LAMBDA item : item.k \in { "path", "<source>" })
  IN  [i \in DOMAIN h |-> h[i].s]

\* the paths printed, in the order of the events
YieldedPaths ==
  LET y == SelectSeq(log, LAMBDA e : e.ev = "yield")
  IN  [i \in DOMAIN y |-> norm_path(y[i].path)]

C14_RootOrder ==
  /\ InRootLoop => paths = CombinedRoots
  /\ \A i, j \in DOMAIN log : i < j => log[i].arg <= log[j].arg
  /\ \A i \in DOMAIN log :
       /\ log[i].arg \in DOMAIN CombinedRoots
       /\ Under(log[i].path, CombinedRoots[log[i].arg])
  /\ Headers(WriterSink) = YieldedPaths

\* f.md on the command line, d/sub then f.md on standard input: the records
\* of f.md, of d/sub's files and of f.md again, in that order
C14_Witness ==
  /\ pc = "done"
  /\ argv.paths = <<p_f_md>>
  /\ paths = <<p_f_md, p_sub, p_f_md>>
  /\ \E i, j, k \in Yields :
       /\ i < j /\ j < k
       /\ log[i].arg = 1 /\ log[j].arg = 2 /\ log[k].arg = 3
       /\ log[j].path = P(<<n_d, n_sub, n_keep_py>>)


(***************************************************************************)
(* C15.  Within the processing of one root no path is printed or skipped   *)
(* twice and no directory is walked twice.  Across roots nothing is        *)
(* deduplicated: every root that is a readable file is printed at its own  *)
(* position, and a finished walk of a root that is a directory has walked  *)
(* it at its own position, whatever the earlier roots were.                *)
(***************************************************************************)
C15_UniqueWithinRoot ==
  /\ \A i, j \in DOMAIN log :
       (i # j /\ log[i].arg = log[j].arg) => log[i].path # log[j].path
  /\ \A r \in DOMAIN paths :
       (InRootLoop /\ r < path_i) =>
         /\ (isfile(paths[r]) /\ paths[r] \notin NotUtf8)
              => \E i \in Yields : log[i].arg = r /\ log[i].path = paths[r]
         /\ isdir(paths[r])
              => \E i \in Visits : log[i].arg = r /\ log[i].path = paths[r]

\* d then d/sub: d/sub/keep.py is printed once under each root
C15_Witness ==
  /\ pc = "done"
  /\ paths = <<p_d, p_sub>>
  /\ Cardinality({ i \in Yields : log[i].path = P(<<n_d, n_sub, n_keep_py>>) }) = 2
  /\ \E i, j \in Yields :
       /\ log[i].arg = 1 /\ log[j].arg = 2
       /\ log[i].path = log[j].path


(***************************************************************************)
(* C16.  A subdirectory of a walked directory is not walked when an active *)
(* pattern matches its name or its name followed by "/": a pattern of the  *)
(* .gitignore rules in force at that directory (ignore_gitignore false),   *)
(* or a pattern of --ignore (ignore_files_only false).                     *)
(***************************************************************************)
MatchesAsDir(d, pattern) == fnmatch(d, pattern) \/ fnmatch(d \o <<"/">>, pattern)

PrunedByIgnoreFile(d, rules) ==
  ~ignore_gitignore /\ \E k \in DOMAIN rules : MatchesAsDir(d, rules[k])

PrunedByIgnoreOption(d) ==
  ~ignore_files_only /\ \E pattern \in ignore_patterns : MatchesAsDir(d, pattern)

C16_DirectoryPatterns ==
  \A i \in Visits :
    \A d \in DirsIn(log[i].path) :
      (PrunedByIgnoreFile(d, log[i].rules) \/ PrunedByIgnoreOption(d))
        => ~DirAccounted(i, d)


(***************************************************************************)
(* C17.  gitignore_rules only grows during an invocation: the rules in     *)
(* force at any event are a prefix of those in force at every later event  *)
(* and of the current list, across roots as well.  So at every walked      *)
(* directory the patterns of every .gitignore read before (a root's        *)
(* parent's, or a directory's walked earlier, in this root or an earlier   *)
(* one) are in force, and the entries they match are excluded.             *)
(***************************************************************************)
IsPrefix(s, t) == Len(s) <= Len(t) /\ SubSeq(t, 1, Len(s)) = s

C17_RulesAppendOnly ==
  /\ \A i, j \in DOMAIN log : i < j => IsPrefix(log[i].rules, log[j].rules)
  /\ log # <<>> => IsPrefix(log[Len(log)].rules, gitignore_rules)
  /\ ~ignore_gitignore =>
       \A j \in Visits :
         /\ \A i \in Visits :
              i <= j => Range(read_gitignore(log[i].path)) \subseteq Range(log[j].rules)
         /\ \A r \in 1..log[j].arg :
              Range(read_gitignore(dirname(paths[r]))) \subseteq Range(log[j].rules)
         /\ \A f \in FilesIn(log[j].path) :
              ~NotGitignoredFile(f, log[j].rules) => ~FileAccounted(j, f)
         /\ \A d \in DirsIn(log[j].path) :
              ~NotGitignoredDir(d, log[j].rules) => ~DirAccounted(j, d)

\* d/sub then d: skip.txt, loaded from d/sub/.gitignore under the first root,
\* is in force when d/build is walked under the second, and d/build/skip.txt
\* is not printed there
C17_Witness ==
  /\ pc = "done"
  /\ paths = <<p_sub, p_d>>
  /\ ~ignore_gitignore
  /\ ignore_patterns = {} /\ extensions = <<>>
  /\ \E i, j \in Visits :
       /\ i < j
       /\ log[i].arg = 1 /\ log[i].path = p_sub
       /\ log[j].arg = 2 /\ log[j].path = p_build
       /\ g_skip_txt \in Range(log[j].rules)
       /\ \E k \in Yields : log[k].path = P(<<n_d, n_build, n_keep_py>>)
  /\ \A k \in Yields : log[k].path # P(<<n_d, n_build, n_skip_txt>>)


(***************************************************************************)
(* C18.  In the walk of a root every file is printed (or skipped) after    *)
(* its own directory was yielded by os.walk and before any other directory *)
(* is, so before every file of its subdirectories; the files of one        *)
(* directory come in ascending order of their names; and the directories   *)
(* come in depth-first pre-order: a directory after its parent, and the    *)
(* directories beneath it in one run right after it.                       *)
(***************************************************************************)
\* the walked directory a file event belongs to: the last one yielded before it
DirOf(i) == CHOOSE v \in Visits : v < i /\ \A u \in Visits : u < i => u <= v

C18_WalkOrder ==
  /\ \A i \in Yields \cup Skips :
       FoundInWalk(log[i]) =>
         /\ \E v \in Visits : v < i
         /\ log[DirOf(i)].arg = log[i].arg
         /\ log[i].path = join(log[DirOf(i)].path, basename(log[i].path))
         /\ basename(log[i].path) \in FilesIn(log[DirOf(i)].path)
  /\ \A i, j \in Yields \cup Skips :
       ( /\ i < j
         /\ FoundInWalk(log[i]) /\ FoundInWalk(log[j])
         /\ DirOf(i) = DirOf(j) )
       => StrLess(basename(log[i].path), basename(log[j].path))
  /\ \A v \in Visits :
       \/ log[v].path = paths[log[v].arg]
       \/ \E u \in Visits :
            /\ u < v /\ log[u].arg = log[v].arg
            /\ log[v].path = join(log[u].path, basename(log[v].path))
  /\ \A u, v, w \in Visits :
       ( /\ u < v /\ v < w
         /\ log[u].arg = log[w].arg
         /\ Under(log[w].path, log[u].path) )
       => Under(log[v].path, log[u].path)

\* the finished walk of d, os.scandir having listed build before sub: a.txt,
\* bin.py (skipped), c.md and e.log came in that order, all before d/build
\* and d/sub were walked, and d/sub/deep right after d/sub
C18_Witness ==
  /\ pc = "done"
  /\ paths = <<p_d>>
  /\ \E a, b, c, e \in Yields \cup Skips, vb, vs, vd \in Visits :
       /\ a < b /\ b < c /\ c < e /\ e < vb /\ vb < vs /\ vd = vs + 3
       /\ log[a].path = P(<<n_d, n_a_txt>>)
       /\ log[b].path = p_bin
       /\ log[c].path = P(<<n_d, n_c_md>>)
       /\ log[e].path = P(<<n_d, n_e_log>>)
       /\ log[vb].path = p_build
       /\ log[vs].path = p_sub
       /\ log[vd].path = p_deep


(***************************************************************************)
(* C19.  With ignore_gitignore false, when a root is processed the         *)
(* patterns of the .gitignore of the root's parent directory are in force: *)
(* they are among the rules at every directory walked under that root, and *)
(* the files and subdirectories they match are not printed or walked.      *)
(***************************************************************************)
\* the directory that holds the entry p names
ParentDir(p) == dirname(Canon(p))

ParentRules(r) == read_gitignore(ParentDir(paths[r]))

C19_ParentIgnoreFile ==
  ~ignore_gitignore =>
    \A j \in Visits :
      /\ Range(ParentRules(log[j].arg)) \subseteq Range(log[j].rules)
      /\ \A f \in FilesIn(log[j].path) :
           (\E k \in DOMAIN ParentRules(log[j].arg) : fnmatch(f, ParentRules(log[j].arg)[k]))
             => ~FileAccounted(j, f)
      /\ \A d \in DirsIn(log[j].path) :
           (\E k \in DOMAIN ParentRules(log[j].arg) : MatchesAsDir(d, ParentRules(log[j].arg)[k]))
             => ~DirAccounted(j, d)


(***************************************************************************)
(* C20.  find_project_config returns the config file of the nearest        *)
(* directory that holds one, among the working directory (level CwdDepth)  *)
(* and all its ancestors up to the file-system root (level 0), and None    *)
(* only when none of them holds one; load_config loads that file.          *)
(***************************************************************************)
LevelsWithConfig == { level \in 0..CwdDepth : env.project_files[level].exists }

NearestConfigLevel ==
  IF LevelsWithConfig = {} THEN -1
  ELSE CHOOSE level \in LevelsWithConfig : \A other \in LevelsWithConfig : other <= level

C20_ProjectLookup ==
  (ConfigLoaded /\ ~argv.no_config) =>
    /\ find_project_config(env) = NearestConfigLevel
    /\ (find_user_config(env) = "None" /\ NearestConfigLevel # -1)
         => config = DefaultsOf(env.project_files[NearestConfigLevel])


(***************************************************************************)
(* C21.  With claude_xml, whatever the counter held when the invocation    *)
(* began, the records written carry the document indices 1, 2, 3, ... in   *)
(* the order written, across all roots; their number is the number of      *)
(* files printed, so a file skipped for not decoding takes no index, and   *)
(* global_index is the index the next record will carry.                   *)
(***************************************************************************)
\* the document indices of a sink's records, in order
DocIndices(sink) ==
  LET h == SelectSeq(sink, LAMBDA item : item.k = "<document index>")
  IN  [i \in DOMAIN h |-> h[i].n]

C21_DocumentIndex ==
  (InRootLoop /\ claude_xml) =>
    /\ DocIndices(WriterSink) = [i \in 1..Cardinality(Yields) |-> i]
    /\ global_index = Cardinality(Yields) + 1

\* the finished run over d/bin.py (skipped) and d/sub (two files printed)
C21_Witness ==
  /\ pc = "done"
  /\ claude_xml
  /\ paths = <<p_bin, p_sub>>
  /\ \E i \in Skips : log[i].arg = 1
  /\ DocIndices(WriterSink) = <<1, 2>>
  /\ global_index = 3


(***************************************************************************)
(* C22.  With claude_xml, whatever the root list, the output of a          *)
(* completed invocation holds one <documents> line, as its first line, and *)
(* one </documents> line, as its last: every document record lies between  *)
(* them.                                                                   *)
(***************************************************************************)
C22_DocumentsWrapper ==
  (pc = "done" /\ claude_xml) =>
    /\ Count(WriterSink, LAMBDA item : item.k = "<documents>") = 1
    /\ Count(WriterSink, LAMBDA item : item.k = "</documents>") = 1
    /\ WriterSink[1].k = "<documents>"
    /\ WriterSink[Len(WriterSink)].k = "</documents>"


(***************************************************************************)
(* C23.  A root that is a regular file is handled by exactly one event, at *)
(* its own position: it is printed, with its record in the sink, whatever  *)
(* include_hidden, the .gitignore rules in force, --ignore and the         *)
(* extensions are; it is skipped only when it does not decode.             *)
(***************************************************************************)
EventsOfRoot(r) == { i \in DOMAIN log : log[i].arg = r }

C23_FileRootUnfiltered ==
  \A r \in DOMAIN paths :
    (InRootLoop /\ r < path_i /\ isfile(paths[r])) =>
      /\ Cardinality(EventsOfRoot(r)) = 1
      /\ \A i \in EventsOfRoot(r) :
           /\ log[i].path = paths[r]
           /\ log[i].ev = IF paths[r] \in NotUtf8 THEN "skip" ELSE "yield"
           /\ log[i].ev = "yield" =>
                \E k \in DOMAIN WriterSink :
                  /\ WriterSink[k].k \in { "path", "<source>" }
                  /\ WriterSink[k].s = norm_path(paths[r])

\* -e py --ignore *.tmp over d/.b.txt (hidden, not .py), d/sub/skip.txt (named
\* by d/sub/.gitignore, which is in force), d/build/x.tmp (named by --ignore)
\* and d/bin.py: the first three printed, the last skipped
C23_Witness ==
  /\ pc = "done"
  /\ Len(paths) = 4
  /\ ~include_hidden /\ ~ignore_gitignore
  /\ extensions = <<e_py>> /\ ignore_patterns = {g_tmp}
  /\ log[1].ev = "yield" /\ log[1].path = P(<<n_d, n_dot_b_txt>>)
  /\ log[2].ev = "yield" /\ log[2].path = P(<<n_d, n_sub, n_skip_txt>>)
  /\ g_skip_txt \in Range(log[2].rules)
  /\ log[3].ev = "yield" /\ log[3].path = P(<<n_d, n_build, n_x_tmp>>)
  /\ log[4].ev = "skip" /\ log[4].path = p_bin

=============================================================================
